---- MODULE Spec2Model ----
(***************************************************************************)
(* A model of src/server.py: the /predict_json handler of the AfiyahMed    *)
(* skin-diagnosis service, its response normaliser parse_gemini_response   *)
(* and the random fallback record built when no model is configured.       *)
(*                                                                         *)
(* Text is modelled by TLA+ strings, character by character.  A TLA+       *)
(* string literal cannot hold the backtick character, so the backtick is   *)
(* written ~ throughout; no text of the model uses ~ for anything else.    *)
(* The texts of the model are ASCII and hold no \u escape.                 *)
(***************************************************************************)
EXTENDS Integers, Sequences, FiniteSets, TLC

(***************************************************************************)
(* Python str operations used by parse_gemini_response.                    *)
(***************************************************************************)

\* s[i] for a 1-based index, "" past either end
Ch(s, i) == IF i >= 1 /\ i <= Len(s) THEN SubSeq(s, i, i) ELSE ""

\* s[i:] for a 1-based index
From(s, i) == SubSeq(s, i, Len(s))

StartsAt(s, sub, i) == /\ i >= 1
                       /\ i + Len(sub) - 1 <= Len(s)
                       /\ SubSeq(s, i, i + Len(sub) - 1) = sub

\* the indices at which sub occurs in s
Occurrences(s, sub) == {i \in 1..(Len(s) - Len(sub) + 1) : StartsAt(s, sub, i)}

\* str.find as a 1-based index, 0 for Python's -1
Find(s, sub) ==
    LET occ == Occurrences(s, sub) IN
    IF occ = {} THEN 0 ELSE CHOOSE i \in occ : \A j \in occ : i <= j

\* str.rfind as a 1-based index, 0 for Python's -1
RFind(s, sub) ==
    LET occ == Occurrences(s, sub) IN
    IF occ = {} THEN 0 ELSE CHOOSE i \in occ : \A j \in occ : i >= j

\* The search below halves the range it searches rather than step through it one
\* character at a time, which keeps the evaluation shallow on long texts.

\* the least index in lo..hi whose character is in set, hi + 1 if there is none
RECURSIVE FirstOf(_, _, _, _)
FirstOf(s, set, lo, hi) ==
    IF lo > hi THEN hi + 1
    ELSE IF lo = hi THEN (IF Ch(s, lo) \in set THEN lo ELSE hi + 1)
    ELSE LET mid  == (lo + hi) \div 2
             left == FirstOf(s, set, lo, mid)
         IN  IF left <= mid THEN left ELSE FirstOf(s, set, mid + 1, hi)

\* sub in s
InStr(sub, s) == Find(s, sub) # 0

\* s.split(sep)[0]
SplitFirst(s, sep) ==
    LET i == Find(s, sep) IN IF i = 0 THEN s ELSE SubSeq(s, 1, i - 1)

\* s.split(sep)[1], used only where sep occurs in s
SplitSecond(s, sep) ==
    LET i    == Find(s, sep)
        rest == From(s, i + Len(sep))
    IN  SplitFirst(rest, sep)

\* the characters str.strip() removes that the texts of the model can hold
StripChars == {" ", "\t", "\n", "\r", "\f"}

RECURSIVE LStripFrom(_, _)
LStripFrom(s, i) ==
    IF i <= Len(s) /\ Ch(s, i) \in StripChars THEN LStripFrom(s, i + 1) ELSE i

RECURSIVE RStripFrom(_, _)
RStripFrom(s, j) ==
    IF j >= 1 /\ Ch(s, j) \in StripChars THEN RStripFrom(s, j - 1) ELSE j

\* s.strip()
Strip(s) ==
    LET i == LStripFrom(s, 1)
        j == RStripFrom(s, Len(s))
    IN  IF i > j THEN "" ELSE SubSeq(s, i, j)

(***************************************************************************)
(* Python values.  Every value is a record of one shape, so that values of *)
(* different Python types can be compared: t is the type, and s, n, a hold *)
(* the string, the integer or the elements, whichever the type uses.       *)
(***************************************************************************)

PyNone      == [t |-> "NoneType", s |-> "", n |-> 0, a |-> <<>>]
PyBool(b)   == [t |-> "bool", s |-> "", n |-> IF b THEN 1 ELSE 0, a |-> <<>>]
PyInt(n)    == [t |-> "int", s |-> "", n |-> n, a |-> <<>>]
PyFloat(lx) == [t |-> "float", s |-> lx, n |-> 0, a |-> <<>>]
PyStr(s)    == [t |-> "str", s |-> s, n |-> 0, a |-> <<>>]
PyList(a)   == [t |-> "list", s |-> "", n |-> 0, a |-> a]
\* a dict is its items in insertion order; an item is a key and a value
PyItem(k, v) == [t |-> "item", s |-> k, n |-> 0, a |-> <<v>>]
PyDict(a)   == [t |-> "dict", s |-> "", n |-> 0, a |-> a]

HasKey(d, k) == \E i \in 1..Len(d.a) : d.a[i].s = k

\* d[k] for a key of d
GetItem(d, k) == LET i == CHOOSE i \in 1..Len(d.a) : d.a[i].s = k IN d.a[i].a[1]

\* d[k] = v: a key already present keeps its place and takes the new value
SetItem(d, k, v) ==
    IF HasKey(d, k)
    THEN PyDict([i \in 1..Len(d.a) |-> IF d.a[i].s = k THEN PyItem(k, v) ELSE d.a[i]])
    ELSE PyDict(Append(d.a, PyItem(k, v)))

(***************************************************************************)
(* json.loads (line 68), as CPython's json.decoder and json.scanner scan   *)
(* a str.  A scan yields [ok, val, end]: whether a value was read, the     *)
(* value, and the 1-based index of the character after it.  The escapes    *)
(* \u and \b, which the texts of the model never hold, are left out.       *)
(***************************************************************************)

Fail == [ok |-> FALSE, val |-> PyNone, end |-> 0]
Got(v, e) == [ok |-> TRUE, val |-> v, end |-> e]

\* json.decoder.WHITESPACE
JsonWs == {" ", "\t", "\n", "\r"}

RECURSIVE SkipWs(_, _)
SkipWs(s, i) == IF Ch(s, i) \in JsonWs THEN SkipWs(s, i + 1) ELSE i

Digits == {"0", "1", "2", "3", "4", "5", "6", "7", "8", "9"}

DigitVal(c) ==
    CASE c = "0" -> 0 [] c = "1" -> 1 [] c = "2" -> 2 [] c = "3" -> 3 [] c = "4" -> 4
      [] c = "5" -> 5 [] c = "6" -> 6 [] c = "7" -> 7 [] c = "8" -> 8 [] c = "9" -> 9

\* the index after the run of digits that starts at i
RECURSIVE DigitsEnd(_, _)
DigitsEnd(s, i) == IF Ch(s, i) \in Digits THEN DigitsEnd(s, i + 1) ELSE i

\* int() of the digits s[i..j-1], continuing from the value acc
RECURSIVE IntOf(_, _, _, _)
IntOf(s, i, j, acc) ==
    IF i >= j THEN acc
    ELSE LET next == 10 * acc + DigitVal(Ch(s, i)) IN IntOf(s, i + 1, j, next)

\* json.scanner.NUMBER_RE matched at i: (-?(?:0|[1-9]\d*))(\.\d+)?([eE][-+]?\d+)?
MatchNumber(s, i) ==
    LET neg     == Ch(s, i) = "-"
        i0      == IF neg THEN i + 1 ELSE i
        intEnd  == IF Ch(s, i0) = "0" THEN i0 + 1 ELSE DigitsEnd(s, i0)
        fracEnd == IF Ch(s, intEnd) = "." /\ Ch(s, intEnd + 1) \in Digits
                   THEN DigitsEnd(s, intEnd + 1) ELSE intEnd
        expAt   == IF Ch(s, fracEnd + 1) \in {"+", "-"} THEN fracEnd + 2 ELSE fracEnd + 1
        expEnd  == IF Ch(s, fracEnd) \in {"e", "E"} /\ Ch(s, expAt) \in Digits
                   THEN DigitsEnd(s, expAt) ELSE fracEnd
        mag     == IntOf(s, i0, intEnd, 0)
    IN  IF intEnd = i0 THEN Fail
        ELSE IF expEnd = intEnd THEN Got(PyInt(IF neg THEN 0 - mag ELSE mag), intEnd)
        ELSE Got(PyFloat(SubSeq(s, i, expEnd - 1)), expEnd)

\* json.decoder.BACKSLASH
IsEscape(c) == c \in {"\"", "\\", "/", "f", "n", "r", "t"}
Unescape(c) ==
    CASE c = "f" -> "\f" [] c = "n" -> "\n" [] c = "r" -> "\r" [] c = "t" -> "\t"
      [] OTHER -> c

\* the control characters a strict decoder refuses inside a string
ControlChars == {"\t", "\n", "\r", "\f"}

\* json.decoder.py_scanstring, from the character after the opening quote:
\* STRINGCHUNK takes the characters up to the next quote, backslash or control
\* character, and that terminator decides what follows
RECURSIVE ScanString(_, _, _)
ScanString(s, i, acc) ==
    LET j     == FirstOf(s, {"\"", "\\"} \cup ControlChars, i, Len(s))
        chunk == IF j > i THEN SubSeq(s, i, j - 1) ELSE ""
        c     == Ch(s, j)
    IN  IF c = "\"" THEN Got(PyStr(acc \o chunk), j + 1)
        ELSE IF c = "\\" /\ IsEscape(Ch(s, j + 1))
        THEN LET sofar == acc \o chunk \o Unescape(Ch(s, j + 1)) IN
             ScanString(s, j + 2, sofar)
        ELSE Fail

RECURSIVE ScanOnce(_, _)
RECURSIVE ObjectMembers(_, _, _)
RECURSIVE ArrayItems(_, _, _)

\* json.decoder.JSONObject from the opening quote of a key, d the pairs read so far
ObjectMembers(s, i, d) ==
    LET k == ScanString(s, i + 1, "") IN
    IF ~k.ok THEN Fail ELSE
    LET c == SkipWs(s, k.end) IN
    IF Ch(s, c) # ":" THEN Fail ELSE
    LET at == SkipWs(s, c + 1)
        v  == ScanOnce(s, at)
    IN
    IF ~v.ok THEN Fail ELSE
    LET e  == SkipWs(s, v.end)
        d2 == SetItem(d, k.val.s, v.val)
    IN  IF Ch(s, e) = "}" THEN Got(d2, e + 1)
        ELSE IF Ch(s, e) # "," THEN Fail
        ELSE LET q == SkipWs(s, e + 1) IN
             IF Ch(s, q) = "\"" THEN ObjectMembers(s, q, d2) ELSE Fail

\* json.decoder.JSONObject from the character after the opening brace
JSONObject(s, i) ==
    LET j == SkipWs(s, i) IN
    IF Ch(s, j) = "}" THEN Got(PyDict(<<>>), j + 1)
    ELSE IF Ch(s, j) = "\"" THEN ObjectMembers(s, j, PyDict(<<>>))
    ELSE Fail

\* json.decoder.JSONArray from the first character of an item, a the items read so far
ArrayItems(s, i, a) ==
    LET v == ScanOnce(s, i) IN
    IF ~v.ok THEN Fail ELSE
    LET e == SkipWs(s, v.end) IN
    IF Ch(s, e) = "]" THEN Got(PyList(Append(a, v.val)), e + 1)
    ELSE IF Ch(s, e) = ","
    THEN LET next  == SkipWs(s, e + 1)
             items == Append(a, v.val)
         IN  ArrayItems(s, next, items)
    ELSE Fail

\* json.decoder.JSONArray from the character after the opening bracket
JSONArray(s, i) ==
    LET j == SkipWs(s, i) IN
    IF Ch(s, j) = "]" THEN Got(PyList(<<>>), j + 1) ELSE ArrayItems(s, j, <<>>)

\* json.scanner.py_make_scanner's _scan_once
ScanOnce(s, i) ==
    LET c == Ch(s, i) IN
    IF c = "" THEN Fail
    ELSE IF c = "\"" THEN ScanString(s, i + 1, "")
    ELSE IF c = "{" THEN JSONObject(s, i + 1)
    ELSE IF c = "[" THEN JSONArray(s, i + 1)
    ELSE IF StartsAt(s, "null", i) THEN Got(PyNone, i + 4)
    ELSE IF StartsAt(s, "true", i) THEN Got(PyBool(TRUE), i + 4)
    ELSE IF StartsAt(s, "false", i) THEN Got(PyBool(FALSE), i + 5)
    ELSE IF c \in Digits \cup {"-"} /\ MatchNumber(s, i).ok THEN MatchNumber(s, i)
    ELSE IF StartsAt(s, "NaN", i) THEN Got(PyFloat("NaN"), i + 3)
    ELSE IF StartsAt(s, "Infinity", i) THEN Got(PyFloat("Infinity"), i + 8)
    ELSE IF StartsAt(s, "-Infinity", i) THEN Got(PyFloat("-Infinity"), i + 9)
    ELSE Fail

\* json.loads(s): the value, or not ok where json.JSONDecodeError is raised
JsonLoads(s) ==
    LET start == SkipWs(s, 1)
        r     == ScanOnce(s, start)
    IN
    IF ~r.ok THEN Fail
    ELSE IF SkipWs(s, r.end) # Len(s) + 1 THEN Fail
    ELSE r

(***************************************************************************)
(* parse_gemini_response (lines 44-92).  A call either returns a value or  *)
(* raises an exception to its caller.                                      *)
(***************************************************************************)

Return(v) == [kind |-> "return", value |-> v, exc |-> ""]
Raise(e)  == [kind |-> "raise", value |-> PyNone, exc |-> e]

\* the marker as markdown writes a fence: three backticks, no backslash
MarkdownFence == "~~~"

\* the marker of lines 51-54: the string literal "\`\`\`" is the six characters
\* backslash, backtick, backslash, backtick, backslash, backtick
FENCE == "\\~\\~\\~"
FENCE_JSON == FENCE \o "json"

\* s.split(sep1)[1].split(sep2)[0].strip()
Between(s, sep1, sep2) ==
    LET second == SplitSecond(s, sep1)
        first  == SplitFirst(second, sep2)
    IN  Strip(first)

\* lines 51-54
StripFences(response_text) ==
    IF InStr(FENCE_JSON, response_text) THEN Between(response_text, FENCE_JSON, FENCE)
    ELSE IF InStr(FENCE, response_text) THEN Between(response_text, FENCE, FENCE)
    ELSE response_text

\* lines 57-63
SliceObject(response_text) ==
    LET start_idx == Find(response_text, "{")
        end_idx   == RFind(response_text, "}")
        sliced    == IF start_idx # 0 /\ end_idx # 0
                     THEN (IF start_idx <= end_idx
                           THEN SubSeq(response_text, start_idx, end_idx) ELSE "")
                     ELSE response_text
    IN  Strip(sliced)

required_fields ==
    <<"top_3_possible_diseases", "explanation", "urgency", "recommended_next_steps",
      "disclaimer">>

\* whether `x in c` is defined for c; it raises TypeError otherwise
SupportsIn(c) == c.t \in {"dict", "str", "list"}

\* `k in c` for a str k
In(k, c) ==
    CASE c.t = "dict" -> HasKey(c, k)
      [] c.t = "str"  -> InStr(k, c.s)
      [] c.t = "list" -> \E i \in 1..Len(c.a) : c.a[i] = PyStr(k)

\* CheckFields with the loop ending one field early
RECURSIVE CheckFieldsButLast(_, _)
CheckFieldsButLast(parsed, i) ==
    IF i > Len(required_fields) - 1 THEN "ok"
    ELSE IF ~SupportsIn(parsed) THEN "TypeError"
    ELSE IF ~In(required_fields[i], parsed) THEN "ValueError"
    ELSE CheckFieldsButLast(parsed, i + 1)

\* lines 71-74 from the i-th required field on: "ok", or the exception raised
RECURSIVE CheckFields(_, _)
CheckFields(parsed, i) ==
    IF i > Len(required_fields) THEN "ok"
    ELSE IF ~SupportsIn(parsed) THEN "TypeError"
    ELSE IF ~In(required_fields[i], parsed) THEN "ValueError"
    ELSE CheckFields(parsed, i + 1)

\* lines 79-81 from the i-th element on: "ok", or the exception raised
RECURSIVE CheckDiseases(_, _)
CheckDiseases(diseases, i) ==
    IF i > Len(diseases.a) THEN "ok"
    ELSE LET disease == diseases.a[i] IN
         IF ~SupportsIn(disease) THEN "TypeError"
         ELSE IF ~In("name", disease) \/ ~In("confidence", disease) THEN "ValueError"
         ELSE CheckDiseases(diseases, i + 1)

\* Validate with the length test of line 76 left out
ValidateAllowsEmpty(parsed) ==
    LET fields == CheckFields(parsed, 1) IN
    IF fields # "ok" THEN fields
    ELSE IF parsed.t # "dict" THEN "TypeError"
    ELSE LET diseases == GetItem(parsed, "top_3_possible_diseases") IN
         IF diseases.t # "list" THEN "ValueError"
         ELSE CheckDiseases(diseases, 1)

\* lines 70-84: "ok", or the exception raised
Validate(parsed) ==
    LET fields == CheckFields(parsed, 1) IN
    IF fields # "ok" THEN fields
    \* parsed["top_3_possible_diseases"] of a str or a list raises TypeError
    ELSE IF parsed.t # "dict" THEN "TypeError"
    ELSE LET diseases == GetItem(parsed, "top_3_possible_diseases") IN
         IF diseases.t # "list" \/ Len(diseases.a) = 0 THEN "ValueError"
         ELSE CheckDiseases(diseases, 1)

\* lines 51-68: the text is cleaned and loaded; not ok where json.loads raises
\* json.JSONDecodeError
Load(response_text) ==
    LET unfenced == StripFences(response_text)
        cleaned  == SliceObject(unfenced)
    IN  JsonLoads(cleaned)

\* lines 70-92 for what line 68 loaded: json.JSONDecodeError and ValueError are
\* caught, nothing else is
Check(loaded) ==
    IF ~loaded.ok THEN Return(PyNone)
    ELSE LET v == Validate(loaded.val) IN
         IF v = "ok" THEN Return(loaded.val)
         ELSE IF v = "ValueError" THEN Return(PyNone)
         ELSE Raise(v)

parse_gemini_response(response_text) ==
    LET loaded == Load(response_text) IN Check(loaded)

(***************************************************************************)
(* json.dumps with its default separators, used to write the texts a model *)
(* reply can hold.                                                         *)
(***************************************************************************)

DigitChar(d) == SubSeq("0123456789", d + 1, d + 1)

RECURSIVE NatStr(_)
NatStr(n) == IF n < 10 THEN DigitChar(n) ELSE NatStr(n \div 10) \o DigitChar(n % 10)

IntStr(n) == IF n < 0 THEN "-" \o NatStr(0 - n) ELSE NatStr(n)

EscapeChar(c) ==
    CASE c = "\"" -> "\\\"" [] c = "\\" -> "\\\\" [] c = "\n" -> "\\n"
      [] c = "\r" -> "\\r" [] c = "\t" -> "\\t" [] c = "\f" -> "\\f"
      [] OTHER -> c

\* the characters json.dumps escapes that the texts of the model can hold
Escaped == {"\"", "\\", "\n", "\r", "\t", "\f"}

RECURSIVE EscapeFrom(_, _)
EscapeFrom(s, i) ==
    LET j     == FirstOf(s, Escaped, i, Len(s))
        chunk == IF j > i THEN SubSeq(s, i, j - 1) ELSE ""
    IN  IF j > Len(s) THEN chunk
        ELSE chunk \o EscapeChar(Ch(s, j)) \o EscapeFrom(s, j + 1)

Quote(s) == "\"" \o EscapeFrom(s, 1) \o "\""

RECURSIVE Dumps(_)
RECURSIVE DumpsJoin(_, _)

\* the items or elements a[i..] joined by ", "
DumpsJoin(a, i) ==
    IF i > Len(a) THEN ""
    ELSE (IF i > 1 THEN ", " ELSE "") \o Dumps(a[i]) \o DumpsJoin(a, i + 1)

Dumps(v) ==
    CASE v.t = "NoneType" -> "null"
      [] v.t = "bool"  -> (IF v.n = 1 THEN "true" ELSE "false")
      [] v.t = "int"   -> IntStr(v.n)
      [] v.t = "float" -> v.s
      [] v.t = "str"   -> Quote(v.s)
      [] v.t = "list"  -> "[" \o DumpsJoin(v.a, 1) \o "]"
      [] v.t = "dict"  -> "{" \o DumpsJoin(v.a, 1) \o "}"
      [] v.t = "item"  -> Quote(v.s) \o ": " \o Dumps(v.a[1])

(***************************************************************************)
(* The requests and the replies of the external model the handler is run   *)
(* on.                                                                     *)
(***************************************************************************)

\* the most candidates a model reply lists
MaxCandidates == 3

Symptoms == {"itchy red patches"}

\* base64 texts: one well padded, one lacking its padding
Images == {"aGk=", "aG k"}

Requests == [symptoms : Symptoms, image_base64 : Images]

Base64Alphabet ==
    {SubSeq("ABCDEFGHIJKLMNOPQRSTUVWXYZabcdefghijklmnopqrstuvwxyz0123456789+/", i, i) :
        i \in 1..64}

\* binascii.a2b_base64 without strict mode, as base64.b64decode (line 100) calls
\* it: TRUE if the text decodes, FALSE if binascii.Error is raised.  quad_pos
\* counts the data characters of the current group of four and pads the padding
\* characters seen since the last data character.
RECURSIVE B64DecodeOk(_, _, _, _)
B64DecodeOk(s, i, quad_pos, pads) ==
    LET c == Ch(s, i) IN
    IF c = "" THEN quad_pos = 0
    ELSE IF c = "="
         THEN (IF quad_pos >= 2 /\ quad_pos + pads + 1 >= 4 THEN TRUE
               ELSE B64DecodeOk(s, i + 1, quad_pos,
                                IF quad_pos >= 2 THEN pads + 1 ELSE pads))
    ELSE IF c \notin Base64Alphabet THEN B64DecodeOk(s, i + 1, quad_pos, pads)
    ELSE B64DecodeOk(s, i + 1, (quad_pos + 1) % 4, 0)

\* lines 120, 148 and 184
Disclaimer == PyStr("This is an AI-based suggestion, not a medical diagnosis.")

\* a candidate entry as the prompt (lines 108-112) asks for it
Candidate(name, confidence) ==
    PyDict(<<PyItem("name", PyStr(name)), PyItem("confidence", PyInt(confidence))>>)

\* a record with the five fields of the prompt (lines 107-121)
Record(diseases, explanation) ==
    PyDict(<<PyItem("top_3_possible_diseases", diseases),
             PyItem("explanation", PyStr(explanation)),
             PyItem("urgency", PyStr("Low")),
             PyItem("recommended_next_steps", PyList(<<PyStr("Step 1")>>)),
             PyItem("disclaimer", Disclaimer)>>)

ReplyCandidates ==
    <<Candidate("Eczema", 80), Candidate("Psoriasis", 15), Candidate("Rosacea", 5),
      Candidate("Dermatitis", 0), Candidate("Acne", 0)>>

\* the first n candidates, n up to Len(ReplyCandidates)
CandidateList(n) ==
    PyList(SubSeq(ReplyCandidates, 1, IF n <= Len(ReplyCandidates) THEN n
                                       ELSE Len(ReplyCandidates)))

\* string values a record can carry: plain, with braces, with a markdown fence,
\* with the marker of lines 51-54 and with characters json.dumps escapes
TrickyStrings ==
    {"x", "a {b} }{ \"c\" \\ \n", "see ~~~json and ~~~",
     "as " \o FENCE_JSON \o " and " \o FENCE}

\* the records that pass every check of lines 70-81
ValidRecords ==
    {Record(CandidateList(n), e) : n \in 1..MaxCandidates, e \in TrickyStrings}

\* prose a model puts before or after its answer
Prose ==
    {"", "Here you go:\n", "or } {", "use ~~~ fences", "not " \o FENCE \o " again",
     "tag " \o FENCE_JSON}

\* the fences a model wraps its answer in: the marker of lines 51-54 and
\* markdown's own three backticks, each with and without the json tag
Fences ==
    {[open |-> FENCE_JSON \o "\n", close |-> "\n" \o FENCE],
     [open |-> FENCE \o "\n", close |-> "\n" \o FENCE],
     [open |-> "~~~json\n", close |-> "\n~~~"],
     [open |-> "~~~\n", close |-> "\n~~~"]}

\* a reply that wraps the serialization of obj in a fence, with prose around it
Fenced(lead, fence, obj, trail) ==
    [text |-> lead \o fence.open \o Dumps(obj) \o fence.close \o trail, obj |-> obj]

FencedReplies ==
    {Fenced(lead, fence, Record(CandidateList(MaxCandidates), e), trail) :
        lead \in Prose, fence \in Fences, e \in TrickyStrings, trail \in Prose}

\* a reply that is exactly the serialization of obj
Bare(obj) == [text |-> Dumps(obj), obj |-> obj]

BareReplies == {Bare(r) : r \in ValidRecords}

\* the record r without its i-th field
Without(r, i) == PyDict([j \in 1..(Len(r.a) - 1) |-> IF j < i THEN r.a[j] ELSE r.a[j + 1]])

IncompleteRecords ==
    LET r == Record(CandidateList(MaxCandidates), "x") IN
    {Without(r, i) : i \in 1..Len(r.a)}
        \cup {Without(Without(r, i), 1) : i \in 2..Len(r.a)}
        \cup {PyDict(<<>>)}

\* values of top_3_possible_diseases that are no list of candidate entries
BadDiseases ==
    {PyStr("name"), PyInt(3), PyNone, PyBool(TRUE),
     Candidate("Eczema", 80),
     PyList(<<>>),
     PyList(<<PyStr("Eczema")>>),
     PyList(<<PyStr("name and confidence")>>),
     PyList(<<PyInt(80)>>),
     PyList(<<PyNone>>),
     PyList(<<PyList(<<PyStr("name"), PyStr("confidence")>>)>>),
     PyList(<<PyDict(<<PyItem("name", PyStr("Eczema"))>>)>>),
     PyList(<<PyDict(<<PyItem("confidence", PyInt(80))>>)>>),
     PyList(<<Candidate("Eczema", 80), PyInt(20)>>),
     PyList(<<Candidate("Eczema", 80), PyStr("Psoriasis")>>),
     PyList(<<PyDict(<<PyItem("name", PyStr("Eczema"))>>), PyInt(20)>>)}

\* JSON values that are no object
NonObjects ==
    {PyInt(123), PyNone, PyBool(TRUE), PyBool(FALSE), PyStr("abc"), PyList(<<PyInt(1)>>),
     PyStr("top_3_possible_diseases explanation urgency recommended_next_steps disclaimer"),
     PyList([i \in 1..Len(required_fields) |-> PyStr(required_fields[i])])}

\* replies that are not the answer the prompt asks for
OtherTexts ==
    {"", "I cannot analyze this image.", "}{", "{", "oops }", "{}", "{\"explanation\": }",
     FENCE_JSON \o "\n123\n" \o FENCE, FENCE \o "null" \o FENCE, FENCE_JSON}
        \cup {Dumps(v) : v \in NonObjects}
        \cup {Dumps(r) : r \in IncompleteRecords}
        \cup {"Sure: " \o Dumps(r) \o " Done." : r \in IncompleteRecords}
        \cup {Dumps(Record(d, "x")) : d \in BadDiseases}
        \cup {FENCE_JSON \o "\n" \o Dumps(Record(d, "x")) \o "\n" \o FENCE : d \in BadDiseases}

\* every text the external model replies with
ReplyTexts ==
    {r.text : r \in FencedReplies} \cup {r.text : r \in BareReplies} \cup OtherTexts

(***************************************************************************)
(* The /predict_json handler (lines 96-189), one request at a time.        *)
(***************************************************************************)

VARIABLES
    USE_GEMINI,       \* lines 10-15: whether google.generativeai was imported
    pc,               \* where the handler is
    request,          \* the PredictRequest being handled
    response_text,    \* response.text, the reply of the external model
    parsed,           \* what json.loads gave parse_gemini_response (line 68)
    parsed_response,  \* what the call of parse_gemini_response did (line 132)
    percentages,      \* the fallback's confidence values (lines 162-167)
    result            \* the HTTP response of the handler

vars ==
    <<USE_GEMINI, pc, request, response_text, parsed, parsed_response, percentages, result>>

NoRequest == [symptoms |-> "", image_base64 |-> ""]
NotCalled == [kind |-> "none", value |-> PyNone, exc |-> ""]
NoResult  == [status |-> 0, prediction |-> PyNone, exc |-> ""]

\* a 200 response {"prediction": record}
Ok(record) == [status |-> 200, prediction |-> record, exc |-> ""]

\* HTTPException(status_code=500) of lines 157 and 189; exc is the class of the
\* exception the handler caught
ServiceError(exc) == [status |-> 500, prediction |-> PyNone, exc |-> exc]

Init ==
    /\ USE_GEMINI \in BOOLEAN
    /\ pc = "idle"
    /\ request = NoRequest
    /\ response_text = ""
    /\ parsed = Fail
    /\ parsed_response = NotCalled
    /\ percentages = <<>>
    /\ result = NoResult

\* lines 97-121: a request arrives and its image is decoded; a binascii.Error
\* reaches the handler of line 188
Decode ==
    /\ pc = "idle"
    /\ \E r \in Requests :
        /\ request' = r
        /\ IF B64DecodeOk(r.image_base64, 1, 0, 0)
           THEN pc' = "decoded" /\ result' = result
           ELSE pc' = "done" /\ result' = ServiceError("binascii.Error")
    /\ UNCHANGED <<USE_GEMINI, response_text, parsed, parsed_response, percentages>>

\* lines 124-131: the external model replies with a text
GenerateContent ==
    /\ pc = "decoded"
    /\ USE_GEMINI
    /\ \E text \in ReplyTexts : response_text' = text
    /\ pc' = "replied"
    /\ UNCHANGED <<USE_GEMINI, request, parsed, parsed_response, percentages, result>>

\* lines 126-131, 155-157: the call of the external model, or reading its text,
\* raises; the HTTPException of line 157 is raised again by line 189
GenerateContentFails ==
    /\ pc = "decoded"
    /\ USE_GEMINI
    /\ pc' = "done"
    /\ result' = ServiceError("APIError")
    /\ UNCHANGED <<USE_GEMINI, request, response_text, parsed, parsed_response, percentages>>

\* lines 136-150
AnalysisError ==
    PyDict(<<PyItem("top_3_possible_diseases", PyList(<<Candidate("Analysis Error", 0)>>)),
             PyItem("explanation",
                    PyStr("Unable to analyze the image. Please try again with a clearer image.")),
             PyItem("urgency", PyStr("Low")),
             PyItem("recommended_next_steps",
                    PyList(<<PyStr("Ensure the image is clear and well-lit"),
                             PyStr("Try uploading a different image"),
                             PyStr("Consult a dermatologist directly")>>)),
             PyItem("disclaimer", Disclaimer)>>)

\* lines 132-157: what the handler answers once parse_gemini_response has run
Answer(outcome) ==
    IF outcome.kind = "raise" THEN ServiceError(outcome.exc)
    ELSE IF outcome.value = PyNone THEN Ok(AnalysisError)
    ELSE Ok(outcome.value)

\* lines 132-157: the reply is parsed and answered
ParseAndAnswer ==
    /\ pc = "replied"
    /\ parsed' = Load(response_text)
    /\ parsed_response' = Check(parsed')
    /\ result' = Answer(parsed_response')
    /\ pc' = "done"
    /\ UNCHANGED <<USE_GEMINI, request, response_text, percentages>>

\* random.randint(20, 50) of line 162
RandLow == 20
RandHigh == 50

\* round(n / d) for n >= 0 and d > 0: Python rounds a tie to the even neighbour.
\* For the quotients of line 164 the float division is exact at every tie and
\* strictly on the right side of it elsewhere (the operands are below 2^13).
PyRound(n, d) ==
    LET q == n \div d
        r == n % d
    IN  IF 2 * r < d THEN q
        ELSE IF 2 * r > d THEN q + 1
        ELSE IF q % 2 = 0 THEN q ELSE q + 1

Sum3(p) == p[1] + p[2] + p[3]

\* Normalise with the correction of lines 165-167 left out
NormaliseUncorrected(drawn) ==
    LET total == Sum3(drawn) IN
    [i \in 1..3 |-> PyRound(drawn[i] * 100, total)]

\* lines 162-167 for the three values drawn
Normalise(drawn) ==
    LET total   == Sum3(drawn)
        rounded == [i \in 1..3 |-> PyRound(drawn[i] * 100, total)]
        diff    == 100 - Sum3(rounded)
    IN  IF diff # 0 THEN [rounded EXCEPT ![1] = rounded[1] + diff] ELSE rounded

\* lines 162-167: the fallback's confidence values
FallbackPercentages ==
    /\ pc = "decoded"
    /\ ~USE_GEMINI
    /\ \E a, b, c \in RandLow..RandHigh : percentages' = Normalise(<<a, b, c>>)
    /\ pc' = "drawn"
    /\ UNCHANGED <<USE_GEMINI, request, response_text, parsed, parsed_response, result>>

\* line 160
disease_names == <<"Eczema", "Psoriasis", "Dermatitis", "Rosacea", "Fungal Infection">>

\* the orders random.shuffle (line 161) can leave disease_names in
Shuffles == Permutations(1..Len(disease_names))

\* lines 179-183
FallbackSteps ==
    PyList(<<PyStr("Keep the affected area clean and dry."),
             PyStr("Avoid harsh soaps or chemicals."),
             PyStr("Consult a certified dermatologist for a detailed examination.")>>)

\* line 177
FallbackExplanation(symptoms) ==
    PyStr("Based on the uploaded image and your reported symptoms ("
          \o symptoms \o "), these are the most likely skin conditions.")

\* TopDiseases with range(2) for range(3)
TopTwoDiseases(shuffled, pcts) ==
    PyList([i \in 1..2 |-> Candidate(disease_names[shuffled[i]], pcts[i])])

\* lines 169-172 for the order the shuffle left and the values of lines 162-167
TopDiseases(shuffled, pcts) ==
    PyList([i \in 1..3 |-> Candidate(disease_names[shuffled[i]], pcts[i])])

\* lines 174-186
FallbackRecord(top_diseases, explanation) ==
    PyDict(<<PyItem("top_3_possible_diseases", top_diseases),
             PyItem("explanation", explanation),
             PyItem("urgency", PyStr("Moderate")),
             PyItem("recommended_next_steps", FallbackSteps),
             PyItem("disclaimer", Disclaimer)>>)

\* lines 161, 169-186: the shuffle of line 161 touches disease_names alone, which
\* line 170 is the first to read, so the order it leaves is drawn here
FallbackAnswer ==
    /\ pc = "drawn"
    /\ LET explanation == FallbackExplanation(request.symptoms) IN
       \E shuffled \in Shuffles :
           result' = Ok(FallbackRecord(TopDiseases(shuffled, percentages), explanation))
    /\ pc' = "done"
    /\ UNCHANGED <<USE_GEMINI, request, response_text, parsed, parsed_response, percentages>>

Next ==
    \/ Decode
    \/ GenerateContent
    \/ GenerateContentFails
    \/ ParseAndAnswer
    \/ FallbackPercentages
    \/ FallbackAnswer

Spec == Init /\ [][Next]_vars

(***************************************************************************)
(* Properties.                                                            *)
(***************************************************************************)

\* parse_gemini_response has run on response_text
Parsed == parsed_response.kind # "none"

\* the candidates of a returned record
Candidates(record) == GetItem(record, "top_3_possible_diseases")

HasAllFields(v) ==
    /\ v.t = "dict"
    /\ \A i \in 1..Len(required_fields) : HasKey(v, required_fields[i])

\* a candidate entry: an object carrying a name and a confidence
IsCandidate(v) == v.t = "dict" /\ HasKey(v, "name") /\ HasKey(v, "confidence")

\* a non-empty list of candidate entries
WellFormedCandidates(v) ==
    /\ v.t = "list"
    /\ Len(v.a) > 0
    /\ \A i \in 1..Len(v.a) : IsCandidate(v.a[i])

\* what the specification calls a valid record
IsValidRecord(v) == HasAllFields(v) /\ WellFormedCandidates(Candidates(v))

\* the text holds no "{" with a "}" after it
NoBracePair(text) ==
    LET first == Find(text, "{")
        last  == RFind(text, "}")
    IN  first = 0 \/ last = 0 \/ last < first

\* C1: a reply that wraps the serialization of a valid record in a code fence,
\* with any prose before and after it, is parsed to exactly that record.
C1_FencedObjectReturned ==
    Parsed => \A r \in FencedReplies :
                  response_text = r.text => parsed_response = Return(r.obj)

\* C1 failure: markdown's fence with the json tag, a record with plain strings
\* and the trailing prose "or } {" is answered with None.
C1_Witness ==
    /\ Parsed
    /\ \E r \in FencedReplies :
        /\ r.text = "~~~json\n" \o Dumps(r.obj) \o "\n~~~or } {"
        /\ response_text = r.text
        /\ parsed_response = Return(PyNone)

\* C2: a reply with no "{" ... "}" pair is answered with None: no record is
\* returned and no exception reaches the caller.
C2_NoBracePairGivesNone ==
    (Parsed /\ NoBracePair(response_text)) => parsed_response = Return(PyNone)

\* C2 failure: the reply 123 holds no brace, is loaded as a number, and the
\* test of line 72 raises a TypeError that lines 86-92 do not catch.
C2_Witness ==
    /\ Parsed
    /\ response_text = "123"
    /\ parsed.ok /\ parsed.val = PyInt(123)
    /\ parsed_response = Raise("TypeError")

\* C3: a parsed JSON object that lacks one of the five required fields is
\* answered with None, never with the object.
C3_MissingFieldGivesNone ==
    (Parsed /\ parsed.ok /\ parsed.val.t = "dict" /\ ~HasAllFields(parsed.val))
        => parsed_response = Return(PyNone)

\* C3 witness: an object that has its candidates and lacks only its disclaimer
\* was loaded and refused.
C3_Witness ==
    /\ Parsed /\ parsed.ok /\ parsed.val.t = "dict"
    /\ HasKey(parsed.val, "top_3_possible_diseases")
    /\ HasKey(parsed.val, "recommended_next_steps")
    /\ ~HasKey(parsed.val, "disclaimer")
    /\ parsed_response = Return(PyNone)

\* C4: a record is returned only if its candidates are a non-empty list of
\* entries with a name and a confidence, and an object with the five fields whose
\* candidates are anything else is answered with None.
C4_CandidatesValidated ==
    /\ (Parsed /\ parsed_response.kind = "return" /\ parsed_response.value # PyNone)
           => IsValidRecord(parsed_response.value)
    /\ (Parsed /\ parsed.ok /\ HasAllFields(parsed.val)
               /\ ~WellFormedCandidates(Candidates(parsed.val)))
           => parsed_response = Return(PyNone)

\* C4 failure: a candidate list holding null raises a TypeError at line 80.
C4_Witness ==
    /\ Parsed /\ parsed.ok /\ HasAllFields(parsed.val)
    /\ Candidates(parsed.val) = PyList(<<PyNone>>)
    /\ parsed_response = Raise("TypeError")

\* the confidence values of a record's candidates
Confidences(record) ==
    [i \in 1..Len(Candidates(record).a) |-> GetItem(Candidates(record).a[i], "confidence")]

\* the handler answered on its no-model branch
FallbackAnswered == pc = "done" /\ ~USE_GEMINI /\ result.status = 200

\* C5: the fallback record has exactly 3 candidates whose integer confidence
\* values sum to exactly 100, whatever was drawn.
C5_FallbackSumsTo100 ==
    FallbackAnswered =>
        LET c == Confidences(result.prediction) IN
        /\ Len(c) = 3
        /\ \A i \in 1..3 : c[i].t = "int"
        /\ c[1].n + c[2].n + c[3].n = 100

\* C5 witness: three equal draws round to 33 each, and the remainder of 1 went to
\* the first candidate.
C5_Witness ==
    /\ FallbackAnswered
    /\ Confidences(result.prediction) = <<PyInt(34), PyInt(33), PyInt(33)>>

\* C6: every record in a 200 response has the five fields and a non-empty list
\* of candidates.
C6_ReturnedRecordComplete ==
    result.status = 200 =>
        /\ HasAllFields(result.prediction)
        /\ Candidates(result.prediction).t = "list"
        /\ Len(Candidates(result.prediction).a) > 0

\* C6 witness: a record the model sent, wrapped in prose, was validated and
\* returned.
C6_Witness ==
    /\ result.status = 200
    /\ Parsed /\ parsed_response.value # PyNone
    /\ result.prediction = parsed_response.value
    /\ response_text # Dumps(result.prediction)

\* C7: with the model configured and the image decoded, the request ends in a
\* service error exactly when the call of the model failed, so never because
\* of what parse_gemini_response made of a reply.
C7_ServiceErrorIffModelCallFailed ==
    (pc = "done" /\ USE_GEMINI /\ result.exc # "binascii.Error")
        => (result.status = 500 <=> ~Parsed)

\* C7 failure: the model replied 123 and the request ended in a service error.
C7_Witness ==
    /\ pc = "done" /\ USE_GEMINI /\ Parsed
    /\ response_text = "123"
    /\ result = ServiceError("TypeError")

\* C8: every reply that is not a valid record is answered with the one
\* analysis-failed record.
C8_OneRecoveryPolicy ==
    (pc = "done" /\ Parsed /\ ~(parsed.ok /\ IsValidRecord(parsed.val)))
        => result = Ok(AnalysisError)

\* C8 failure: a reply whose candidate list holds a number is answered with a
\* service error, not with the analysis-failed record.
C8_Witness ==
    /\ pc = "done" /\ Parsed /\ parsed.ok /\ HasAllFields(parsed.val)
    /\ Candidates(parsed.val) = PyList(<<PyInt(80)>>)
    /\ result.status = 500

\* C9 as stated: every returned record lists exactly 3 candidates.
C9_ExactlyThreeCandidates ==
    result.status = 200 => Len(Candidates(result.prediction).a) = 3

\* C9 as amended: a returned record lists exactly 3 candidates on the no-model
\* branch, exactly 1 in the analysis-failed record, and for a validated reply of
\* the model as many as the reply lists, at least 1.
C9_CandidateCountByPath ==
    result.status = 200 =>
        LET n == Len(Candidates(result.prediction).a) IN
        /\ ~USE_GEMINI => n = 3
        /\ (USE_GEMINI /\ parsed_response.value = PyNone) => n = 1
        /\ (USE_GEMINI /\ parsed_response.value # PyNone)
               => (n >= 1 /\ n = Len(Candidates(parsed.val).a))

\* C9 witness: a validated reply with two candidates was returned.
C9_Witness ==
    /\ result.status = 200
    /\ USE_GEMINI /\ parsed_response.value # PyNone
    /\ Len(Candidates(result.prediction).a) = 2

\* C10: a reply that is exactly the serialization of a valid record, with no
\* fence and no prose, is parsed to that record, whatever its strings hold.
C10_BareRoundTrip ==
    Parsed => \A r \in BareReplies :
                  response_text = r.text => parsed_response = Return(r.obj)

\* C10 witness: a record whose explanation holds the marker of lines 51-54 came
\* back unchanged.
C10_Witness ==
    /\ Parsed
    /\ \E r \in BareReplies :
        /\ response_text = r.text
        /\ InStr(FENCE_JSON, GetItem(r.obj, "explanation").s)
        /\ parsed_response = Return(r.obj)

====
